---- MODULE Spec2Model ----
(***************************************************************************)
(* Model of the career-goal store of src/app.py: one table career_goals    *)
(* and the six request handlers over it.                                   *)
(*                                                                         *)
(* A Python str is a sequence of one-character strings, a List[str] a      *)
(* sequence of such sequences.  A float is the exact rational it denotes,  *)
(* <<numerator, denominator>> in lowest terms with a positive denominator: *)
(* the rounding of IEEE doubles is not modelled.                           *)
(***************************************************************************)
EXTENDS Integers, Sequences, FiniteSets, TLC

VARIABLES
    goals,      \* the rows of career_goals, in rowid order
    resp,       \* the response of the last request
    sessions,   \* per worker: the row its session has loaded and not yet committed
    calls       \* per goal id: the statuses of the PUT-increment calls since its creation

vars == <<goals, resp, sessions, calls>>

-----------------------------------------------------------------------------
(* Bounds of the model *)

MaxId == 2
MaxEstimated == 2
MaxElapsed == 3
MaxMilestones == 2
MaxLabelLen == 1
MaxCalls == 4
NumWorkers == 2

-----------------------------------------------------------------------------
(* Python values *)

\* ",".join(list)
RECURSIVE Join(_)
Join(list) ==
    IF list = <<>> THEN <<>>
    ELSE IF Len(list) = 1 THEN list[1]
    ELSE list[1] \o <<",">> \o Join(Tail(list))

\* s.split(","): never empty, "" gives [""]
RECURSIVE SplitFrom(_, _, _)
SplitFrom(s, i, cur) ==
    IF i > Len(s) THEN <<cur>>
    ELSE IF s[i] = "," THEN <<cur>> \o SplitFrom(s, i + 1, <<>>)
    ELSE SplitFrom(s, i + 1, Append(cur, s[i]))

Split(s) == SplitFrom(s, 1, <<>>)

\* x.split(",") if x else []
DecodeMilestones(s) == IF s # <<>> THEN Split(s) ELSE <<>>

Abs(n) == IF n < 0 THEN 0 - n ELSE n

RECURSIVE GCD(_, _)
GCD(a, b) == IF b = 0 THEN a ELSE GCD(b, a % b)

\* the float n/d, d # 0
Rat(n, d) ==
    LET g == GCD(Abs(n), Abs(d))
        s == IF d < 0 THEN 0 - 1 ELSE 1
    IN  <<(s * n) \div g, (s * d) \div g>>

RatMul(x, y) == Rat(x[1] * y[1], x[2] * y[2])

RatLess(x, y) == x[1] * y[2] < y[1] * x[2]

Float(n) == <<n, 1>>

-----------------------------------------------------------------------------
(* The table *)

Ids == {goals[i].id : i \in 1..Len(goals)}

\* Find without the filter: the first row of the table, whatever its id
FindFirst(goal_id) == IF goals # <<>> THEN 1 ELSE 0

\* db.query(CareerGoal).filter(CareerGoal.id == goal_id).first(): the row's index, 0 for None
Find(goal_id) ==
    IF goal_id \in Ids THEN CHOOSE i \in 1..Len(goals) : goals[i].id = goal_id ELSE 0

\* the id the table gives an inserted row: one more than the largest rowid
NewId == IF goals = <<>> THEN 1 ELSE goals[Len(goals)].id + 1

\* Without dropping the last row whatever i is
WithoutLast(i) == SubSeq(goals, 1, Len(goals) - 1)

\* the table without its i-th row
Without(i) == [j \in 1..(Len(goals) - 1) |-> IF j < i THEN goals[j] ELSE goals[j + 1]]

\* the JSON object the handlers build from a row
GoalDict(row) ==
    [id |-> row.id,
     title |-> row.title,
     description |-> row.description,
     milestones |-> DecodeMilestones(row.milestones),
     progress |-> row.progress,
     estimated_days |-> row.estimated_days,
     elapsed_days |-> row.elapsed_days]

\* a CareerGoalCreate body
GoalCreate(title, description, milestones, progress, estimated_days) ==
    [title |-> title, description |-> description, milestones |-> milestones,
     progress |-> progress, estimated_days |-> estimated_days]

\* the request of an endpoint that takes no body
NoBody == GoalCreate("", "", <<>>, Float(0), 0)

\* a request and what the client gets back: the endpoint, its path parameter and body,
\* the HTTP status, the HTTPException's detail or the answer's message, and the goals
\* of the answer
Response(op, goal_id, goal, status, detail, body) ==
    [op |-> op, goal_id |-> goal_id, goal |-> goal, status |-> status, detail |-> detail,
     goals |-> body]

Fields == {"id", "title", "description", "milestones", "progress", "estimated_days", "elapsed_days"}

\* the Python type of a column of CareerGoal
ColumnType(f) ==
    IF f \in {"id", "estimated_days", "elapsed_days"} THEN "int"
    ELSE IF f = "progress" THEN "float"
    ELSE "str"

\* the type CareerGoalResponse declares for a field
ResponseType(f) ==
    IF f \in {"id", "estimated_days", "elapsed_days"} THEN "int"
    ELSE IF f = "progress" THEN "float"
    ELSE IF f = "milestones" THEN "list"
    ELSE "str"

\* response_model=CareerGoalResponse on a returned CareerGoal row: every attribute must
\* validate as the declared type (an int is a valid float; a str is no valid List[str])
RowValidatesAsResponse ==
    \A f \in Fields :
        \/ ColumnType(f) = ResponseType(f)
        \/ ColumnType(f) = "int" /\ ResponseType(f) = "float"

\* (elapsed_days / estimated_days) * 100
Progress(elapsed_days, estimated_days) ==
    RatMul(Rat(elapsed_days, estimated_days), Float(100))

-----------------------------------------------------------------------------
(* The handlers.  Each is one session: query, change, commit. *)

\* POST /goals/
create_goal(goal) ==
    LET db_goal == [id |-> NewId,
                    title |-> goal.title,
                    description |-> goal.description,
                    milestones |-> Join(goal.milestones),
                    progress |-> goal.progress,
                    estimated_days |-> goal.estimated_days,
                    elapsed_days |-> 0]
    IN  /\ goals' = Append(goals, db_goal)
        /\ resp' = IF RowValidatesAsResponse
                   THEN Response("create_goal", 0, goal, 200, "", <<GoalDict(db_goal)>>)
                   ELSE Response("create_goal", 0, goal, 500, "Internal Server Error", <<>>)

\* GET /goals/
get_goals ==
    /\ goals' = goals
    /\ resp' = Response("get_goals", 0, NoBody, 200, "", [i \in 1..Len(goals) |-> GoalDict(goals[i])])

\* DELETE /goals/{goal_id}/
delete_goal(goal_id) ==
    LET i == Find(goal_id)
    IN  IF i = 0
        THEN /\ goals' = goals
             /\ resp' = Response("delete_goal", goal_id, NoBody, 404, "Goal not found", <<>>)
        ELSE /\ goals' = Without(i)
             /\ resp' = Response("delete_goal", goal_id, NoBody, 200, "Goal deleted successfully", <<>>)

\* Incremented starting elapsed_days over at 0 once the estimate is reached
IncrementedStartingOver(row) ==
    LET elapsed == row.elapsed_days + 1
    IN  [row EXCEPT !.elapsed_days = IF elapsed >= row.estimated_days THEN 0 ELSE elapsed,
                    !.progress = IF elapsed >= row.estimated_days
                                 THEN Float(100)
                                 ELSE Progress(elapsed, row.estimated_days)]

\* Incremented with the progress taken from the old elapsed_days
IncrementedStale(row) ==
    LET elapsed == row.elapsed_days + 1
        progress == Progress(row.elapsed_days, row.estimated_days)
    IN  [row EXCEPT !.elapsed_days = elapsed,
                    !.progress = IF elapsed >= row.estimated_days THEN Float(100) ELSE progress]

\* the row after a successful PUT-increment
Incremented(row) ==
    LET elapsed == row.elapsed_days + 1
        progress == Progress(elapsed, row.estimated_days)
    IN  [row EXCEPT !.elapsed_days = elapsed,
                    !.progress = IF elapsed >= row.estimated_days THEN Float(100) ELSE progress]

\* NotCompleted with <= for <
NotCompletedOffByOne(row) == row.elapsed_days <= row.estimated_days

\* if db_goal.elapsed_days < db_goal.estimated_days
NotCompleted(row) == row.elapsed_days < row.estimated_days

\* PUT /goals/{goal_id}/increment/
increment_progress(goal_id) ==
    LET i == Find(goal_id)
    IN  IF i = 0
        THEN /\ goals' = goals
             /\ resp' = Response("increment_progress", goal_id, NoBody, 404, "Goal not found", <<>>)
        ELSE IF NotCompleted(goals[i])
        THEN /\ goals' = [goals EXCEPT ![i] = Incremented(goals[i])]
             /\ resp' = Response("increment_progress", goal_id, NoBody, 200, "",
                                 <<GoalDict(Incremented(goals[i]))>>)
        ELSE /\ goals' = goals
             /\ resp' = Response("increment_progress", goal_id, NoBody, 400, "Goal already completed", <<>>)

\* IncrementedLenient with the clamp of the PUT-increment
IncrementedLenientClamped(row) == Incremented(row)

\* the row after a successful PATCH-increment
IncrementedLenient(row) ==
    [row EXCEPT !.elapsed_days = row.elapsed_days + 1,
                !.progress = Progress(row.elapsed_days + 1, row.estimated_days)]

\* PATCH /goals/{goal_id}/increment/
increment_goal_progress(goal_id) ==
    LET i == Find(goal_id)
    IN  IF i = 0
        THEN /\ goals' = goals
             /\ resp' = Response("increment_goal_progress", goal_id, NoBody, 200, "Goal not found", <<>>)
        ELSE IF goals[i].estimated_days = 0
        THEN \* ZeroDivisionError before the commit: the session is closed uncommitted
             /\ goals' = goals
             /\ resp' = Response("increment_goal_progress", goal_id, NoBody, 500, "Internal Server Error", <<>>)
        ELSE /\ goals' = [goals EXCEPT ![i] = IncrementedLenient(goals[i])]
             /\ resp' = Response("increment_goal_progress", goal_id, NoBody, 200, "Progress updated",
                                 <<GoalDict(IncrementedLenient(goals[i]))>>)

\* Updated taking the progress of the body too
UpdatedWithProgress(row, goal) ==
    [row EXCEPT !.title = goal.title,
                !.description = goal.description,
                !.milestones = Join(goal.milestones),
                !.progress = goal.progress,
                !.estimated_days = goal.estimated_days,
                !.elapsed_days = 0]

\* the row after PUT /goals/{goal_id}/
Updated(row, goal) ==
    [row EXCEPT !.title = goal.title,
                !.description = goal.description,
                !.milestones = Join(goal.milestones),
                !.estimated_days = goal.estimated_days,
                !.elapsed_days = 0]

\* PUT /goals/{goal_id}/
update_goal(goal_id, goal) ==
    LET i == Find(goal_id)
    IN  IF i = 0
        THEN /\ goals' = goals
             /\ resp' = Response("update_goal", goal_id, goal, 404, "Goal not found", <<>>)
        ELSE /\ goals' = [goals EXCEPT ![i] = Updated(goals[i], goal)]
             /\ resp' = Response("update_goal", goal_id, goal, 200, "", <<GoalDict(Updated(goals[i], goal))>>)

-----------------------------------------------------------------------------
(* Requests *)

\* the ids a request may name: those the table can hold
GoalIds == 1..MaxId

LearnGo == GoalCreate("Learn Go", "d", <<<<"a">>, <<"b">>>>, Float(0), 2)

LearnRust == GoalCreate("Learn Rust", "e", <<>>, Float(40), 0)

\* the bodies of the store's requests
GoalCreates == {LearnGo, LearnRust}

\* one body per estimate, negative and zero included
EstimatedCreates ==
    {GoalCreate("Learn Go", "d", <<<<"a">>>>, Float(0), n) : n \in (0 - 1)..MaxEstimated}

NoResponse == Response("", 0, NoBody, 0, "", <<>>)

\* the empty table, no request made
Init ==
    /\ goals = <<>>
    /\ resp = NoResponse
    /\ sessions = <<>>
    /\ calls = <<>>

-----------------------------------------------------------------------------
(* The store: every operation, one request after the other *)

Create ==
    \E goal \in GoalCreates :
        /\ NewId <= MaxId
        /\ create_goal(goal)
        /\ UNCHANGED <<sessions, calls>>

List == get_goals /\ UNCHANGED <<sessions, calls>>

Delete == \E goal_id \in GoalIds : delete_goal(goal_id) /\ UNCHANGED <<sessions, calls>>

AdvanceOnce ==
    \E goal_id \in GoalIds : increment_progress(goal_id) /\ UNCHANGED <<sessions, calls>>

AdvanceOnceLenient ==
    \E goal_id \in GoalIds :
        /\ goal_id \in Ids => goals[Find(goal_id)].elapsed_days < MaxElapsed
        /\ increment_goal_progress(goal_id)
        /\ UNCHANGED <<sessions, calls>>

Replace ==
    \E goal_id \in GoalIds, goal \in GoalCreates :
        update_goal(goal_id, goal) /\ UNCHANGED <<sessions, calls>>

Next == Create \/ List \/ Delete \/ AdvanceOnce \/ AdvanceOnceLenient \/ Replace

Spec == Init /\ [][Next]_vars

-----------------------------------------------------------------------------
(* Advancing goals of every estimate *)

CreateEstimated ==
    \E goal \in EstimatedCreates :
        /\ NewId <= MaxId
        /\ create_goal(goal)
        /\ UNCHANGED <<sessions, calls>>

NextAdvance == CreateEstimated \/ Delete \/ AdvanceOnce \/ AdvanceOnceLenient

SpecAdvance == Init /\ [][NextAdvance]_vars

-----------------------------------------------------------------------------
(* Goals that are created and then only advanced by PUT-increment, the statuses *)
(* of each goal's calls recorded in order                                       *)

SeqCreate ==
    \E goal \in EstimatedCreates :
        /\ NewId <= MaxId
        /\ create_goal(goal)
        /\ calls' = [goal_id \in DOMAIN calls \cup {NewId} |->
                        IF goal_id = NewId THEN <<>> ELSE calls[goal_id]]
        /\ UNCHANGED sessions

SeqAdvanceOnce ==
    \E goal_id \in Ids :
        /\ Len(calls[goal_id]) < MaxCalls
        /\ increment_progress(goal_id)
        /\ calls' = [calls EXCEPT ![goal_id] = Append(@, resp'.status)]
        /\ UNCHANGED sessions

NextSeq == SeqCreate \/ SeqAdvanceOnce

SpecSeq == Init /\ [][NextSeq]_vars

-----------------------------------------------------------------------------
(* Storing and listing milestones of every shape *)

Chars == {"a", ","}

\* the strings over Chars of length n at most
RECURSIVE StrsUpTo(_)
StrsUpTo(n) ==
    IF n = 0 THEN {<<>>}
    ELSE StrsUpTo(n - 1) \cup {Append(s, c) : s \in StrsUpTo(n - 1), c \in Chars}

Labels == StrsUpTo(MaxLabelLen)

\* the lists of n labels at most
RECURSIVE ListsUpTo(_)
ListsUpTo(n) ==
    IF n = 0 THEN {<<>>}
    ELSE ListsUpTo(n - 1) \cup {Append(l, s) : l \in ListsUpTo(n - 1), s \in Labels}

MilestoneCreates == {GoalCreate("Learn Go", "d", l, Float(0), 2) : l \in ListsUpTo(MaxMilestones)}

MsCreate ==
    \E goal \in MilestoneCreates :
        /\ NewId <= MaxId
        /\ create_goal(goal)
        /\ UNCHANGED <<sessions, calls>>

MsReplace ==
    \E goal_id \in GoalIds, goal \in MilestoneCreates :
        update_goal(goal_id, goal) /\ UNCHANGED <<sessions, calls>>

NextMilestones == MsCreate \/ MsReplace \/ List

SpecMilestones == Init /\ [][NextMilestones]_vars

-----------------------------------------------------------------------------
(* PUT-increment by several worker processes on the one database: a session    *)
(* loads the row, computes on what it loaded, and commits an UPDATE of the row *)
(* by id; nothing locks the row in between.                                    *)

Workers == 1..NumWorkers

Idle == [pc |-> "idle", row |-> <<>>]

InitConc ==
    /\ goals = <<>>
    /\ resp = NoResponse
    /\ sessions = [w \in Workers |-> Idle]
    /\ calls = <<>>

\* the one goal the calls race on
ConcCreate ==
    \E goal \in EstimatedCreates :
        /\ goals = <<>>
        /\ create_goal(goal)
        /\ calls' = [goal_id \in DOMAIN calls \cup {NewId} |->
                        IF goal_id = NewId THEN <<>> ELSE calls[goal_id]]
        /\ UNCHANGED sessions

\* the workers whose session holds the row of the given id
Loaded(goal_id) ==
    {w \in Workers : sessions[w].pc = "loaded" /\ sessions[w].row[1].id = goal_id}

\* db_goal = db.query(CareerGoal).filter(CareerGoal.id == goal_id).first()
Query(w) ==
    \E goal_id \in GoalIds :
        /\ sessions[w].pc = "idle"
        /\ goal_id \in Ids => Len(calls[goal_id]) + Cardinality(Loaded(goal_id)) < MaxCalls
        /\ IF Find(goal_id) = 0
           THEN /\ resp' = Response("increment_progress", goal_id, NoBody, 404, "Goal not found", <<>>)
                /\ UNCHANGED sessions
           ELSE /\ sessions' = [sessions EXCEPT ![w] = [pc |-> "loaded", row |-> <<goals[Find(goal_id)]>>]]
                /\ UNCHANGED resp
        /\ UNCHANGED <<goals, calls>>

\* Committed with the increment applied to the stored row, as an UPDATE
\* ... SET elapsed_days = elapsed_days + 1 would
CommittedStored(stored, loaded) ==
    [stored EXCEPT !.elapsed_days = Incremented(stored).elapsed_days,
                   !.progress = Incremented(stored).progress]

\* the stored row after the commit of a session that loaded `loaded` and incremented it:
\* UPDATE career_goals SET elapsed_days=?, progress=? WHERE id=?
Committed(stored, loaded) ==
    [stored EXCEPT !.elapsed_days = Incremented(loaded).elapsed_days,
                   !.progress = Incremented(loaded).progress]

\* the rest of increment_progress, on the row the session loaded; db.refresh reads the
\* row back for the answer
Commit(w) ==
    /\ sessions[w].pc = "loaded"
    /\ LET loaded == sessions[w].row[1]
           i == Find(loaded.id)
       IN  /\ IF NotCompleted(loaded)
              THEN /\ goals' = [goals EXCEPT ![i] = Committed(goals[i], loaded)]
                   /\ resp' = Response("increment_progress", loaded.id, NoBody, 200, "",
                                       <<GoalDict(Committed(goals[i], loaded))>>)
              ELSE /\ goals' = goals
                   /\ resp' = Response("increment_progress", loaded.id, NoBody, 400,
                                       "Goal already completed", <<>>)
           /\ calls' = [calls EXCEPT ![loaded.id] = Append(@, resp'.status)]
    /\ sessions' = [sessions EXCEPT ![w] = Idle]

ConcQuery == \E w \in Workers : Query(w)

ConcCommit == \E w \in Workers : Commit(w)

NextConc == ConcCreate \/ ConcQuery \/ ConcCommit

SpecConc == InitConc /\ [][NextConc]_vars

-----------------------------------------------------------------------------
(* What the claims speak of *)

\* the row of `table` with the given id
RowOf(table, goal_id) == table[CHOOSE i \in 1..Len(table) : table[i].id = goal_id]

IdsOf(table) == {table[i].id : i \in 1..Len(table)}

\* every row but the one with the given id is the same, at the same place, in both tables
OthersUnchanged(goal_id) ==
    /\ Len(goals') = Len(goals)
    /\ \A i \in 1..Len(goals) :
           IF goals[i].id = goal_id THEN goals'[i].id = goal_id ELSE goals'[i] = goals[i]

\* the step is a request to endpoint op for a stored goal
StepOn(op, goal_id) ==
    /\ resp'.op = op
    /\ resp'.goal_id = goal_id
    /\ goal_id \in IdsOf(goals)

Hundred == Float(100)

\* 100 * elapsed_days / estimated_days as a number
Percentage(elapsed_days, estimated_days) == Rat(100 * elapsed_days, estimated_days)

-----------------------------------------------------------------------------
(* C1: PUT-increment on a stored goal with elapsed_days < estimated_days answers 200, *)
(* adds exactly 1 to elapsed_days, sets progress to 100*elapsed_days/estimated_days   *)
(* of the new elapsed_days, which is exactly 100 when the new elapsed_days equals     *)
(* estimated_days, and changes no other field of the goal and no other goal.          *)
C1_AdvanceOnceStep ==
    [][\A goal_id \in GoalIds :
         (StepOn("increment_progress", goal_id)
          /\ RowOf(goals, goal_id).elapsed_days < RowOf(goals, goal_id).estimated_days)
         => LET old == RowOf(goals, goal_id)
                new == RowOf(goals', goal_id)
            IN  /\ resp'.status = 200
                /\ OthersUnchanged(goal_id)
                /\ new.elapsed_days = old.elapsed_days + 1
                /\ new.progress = Percentage(new.elapsed_days, old.estimated_days)
                /\ new.elapsed_days = old.estimated_days => new.progress = Hundred
                /\ new = [old EXCEPT !.elapsed_days = new.elapsed_days,
                                     !.progress = new.progress]]_vars

\* a PUT-increment has left a goal half way, a second goal being stored
C1_Witness ==
    /\ resp.op = "increment_progress"
    /\ resp.status = 200
    /\ Len(goals) = 2
    /\ RowOf(goals, resp.goal_id).elapsed_days = 1
    /\ RowOf(goals, resp.goal_id).progress = Float(50)

(* C2: PUT-increment on a stored goal with elapsed_days >= estimated_days, zero and  *)
(* negative estimates included, answers 400 "Goal already completed" and leaves the  *)
(* whole table as it was.                                                            *)
C2_AlreadyComplete ==
    [][\A goal_id \in GoalIds :
         (StepOn("increment_progress", goal_id)
          /\ RowOf(goals, goal_id).elapsed_days >= RowOf(goals, goal_id).estimated_days)
         => /\ resp'.status = 400
            /\ resp'.detail = "Goal already completed"
            /\ resp'.goals = <<>>
            /\ goals' = goals]_vars

\* a PUT-increment was refused on a goal whose estimate is negative
C2_Witness ==
    /\ resp.op = "increment_progress"
    /\ resp.status = 400
    /\ resp.goal_id \in Ids
    /\ RowOf(goals, resp.goal_id).estimated_days < 0
    /\ RowOf(goals, resp.goal_id).elapsed_days = 0

(* C4 as claimed: PATCH-increment on a stored goal with estimated_days # 0 adds      *)
(* exactly 1 to elapsed_days and sets progress to the unclamped                      *)
(* 100*elapsed_days/estimated_days; when elapsed_days >= estimated_days before the   *)
(* call, elapsed_days > estimated_days and progress > 100 after it.                  *)
C4_LenientAsClaimed ==
    [][\A goal_id \in GoalIds :
         (StepOn("increment_goal_progress", goal_id)
          /\ RowOf(goals, goal_id).estimated_days # 0)
         => LET old == RowOf(goals, goal_id)
                new == RowOf(goals', goal_id)
            IN  /\ resp'.status = 200
                /\ new.elapsed_days = old.elapsed_days + 1
                /\ new.progress = Percentage(new.elapsed_days, old.estimated_days)
                /\ old.elapsed_days >= old.estimated_days
                   => /\ new.elapsed_days > new.estimated_days
                      /\ RatLess(Hundred, new.progress)]_vars

(* C4 amended: PATCH-increment on a stored goal with estimated_days # 0 adds exactly *)
(* 1 to elapsed_days and sets progress to the unclamped                              *)
(* 100*elapsed_days/estimated_days, changing nothing else; when elapsed_days >=      *)
(* estimated_days before the call, elapsed_days > estimated_days after it, and       *)
(* progress > 100 if estimated_days > 0, progress < 0 if estimated_days < 0.         *)
C4_LenientStep ==
    [][\A goal_id \in GoalIds :
         (StepOn("increment_goal_progress", goal_id)
          /\ RowOf(goals, goal_id).estimated_days # 0)
         => LET old == RowOf(goals, goal_id)
                new == RowOf(goals', goal_id)
            IN  /\ resp'.status = 200
                /\ resp'.detail = "Progress updated"
                /\ OthersUnchanged(goal_id)
                /\ new.elapsed_days = old.elapsed_days + 1
                /\ new.progress = Percentage(new.elapsed_days, old.estimated_days)
                /\ new = [old EXCEPT !.elapsed_days = new.elapsed_days,
                                     !.progress = new.progress]
                /\ old.elapsed_days >= old.estimated_days
                   => /\ new.elapsed_days > new.estimated_days
                      /\ old.estimated_days > 0 => RatLess(Hundred, new.progress)
                      /\ old.estimated_days < 0 => RatLess(new.progress, Float(0))]_vars

\* a PATCH-increment has taken a goal past its positive estimate
C4_Witness ==
    /\ resp.op = "increment_goal_progress"
    /\ resp.status = 200
    /\ resp.goal_id \in Ids
    /\ RowOf(goals, resp.goal_id).estimated_days > 0
    /\ RowOf(goals, resp.goal_id).elapsed_days > RowOf(goals, resp.goal_id).estimated_days
    /\ RatLess(Hundred, RowOf(goals, resp.goal_id).progress)

(* C3: a goal created with estimated_days = N >= 1 and then only advanced by        *)
(* PUT-increment: exactly its first N calls answer 200, every later one 400;         *)
(* elapsed_days is the number of calls made, at most N, never above estimated_days;  *)
(* once N calls are made elapsed_days = N and progress = 100.                        *)
C3_FirstNSucceed ==
    \A goal_id \in Ids :
        LET row == RowOf(goals, goal_id)
            N == row.estimated_days
            made == calls[goal_id]
        IN  N >= 1 =>
              /\ \A k \in 1..Len(made) : made[k] = IF k <= N THEN 200 ELSE 400
              /\ row.elapsed_days = IF Len(made) <= N THEN Len(made) ELSE N
              /\ row.elapsed_days <= row.estimated_days
              /\ Len(made) >= N => row.elapsed_days = N /\ row.progress = Hundred

\* a goal of estimate 2 and more has had all its calls and one refused call more
C3_Witness ==
    \E goal_id \in Ids :
        LET row == RowOf(goals, goal_id)
        IN  /\ row.estimated_days >= 2
            /\ Len(calls[goal_id]) = row.estimated_days + 1
            /\ calls[goal_id][row.estimated_days] = 200
            /\ calls[goal_id][row.estimated_days + 1] = 400
            /\ row.progress = Hundred

(* C5: for an id that is not stored, PATCH-increment answers 200 with the message    *)
(* "Goal not found", while DELETE, PUT-increment and PUT answer 404 "Goal not        *)
(* found"; none of the four changes the table.                                       *)
C5_NotFound ==
    [][\A goal_id \in GoalIds :
         (resp'.goal_id = goal_id /\ goal_id \notin IdsOf(goals))
         => /\ resp'.op = "increment_goal_progress"
               => resp'.status = 200 /\ resp'.detail = "Goal not found" /\ goals' = goals
            /\ resp'.op \in {"delete_goal", "increment_progress", "update_goal"}
               => resp'.status = 404 /\ resp'.detail = "Goal not found" /\ goals' = goals
            /\ resp'.goals = <<>>]_vars

\* a PATCH-increment for an id that is not stored, another goal being stored
C5_Witness ==
    /\ resp.op = "increment_goal_progress"
    /\ resp.goal_id \notin Ids
    /\ resp.status = 200
    /\ resp.detail = "Goal not found"
    /\ goals # <<>>

(* C6: PUT on a stored goal answers 200, stores the body's title, description,       *)
(* milestones (comma-joined) and estimated_days, sets elapsed_days to 0, and leaves  *)
(* the goal's id and its stored progress as they were, whatever progress the body    *)
(* carries; no other goal changes.                                                   *)
C6_Replace ==
    [][\A goal_id \in GoalIds :
         StepOn("update_goal", goal_id)
         => LET old == RowOf(goals, goal_id)
                new == RowOf(goals', goal_id)
                goal == resp'.goal
            IN  /\ resp'.status = 200
                /\ OthersUnchanged(goal_id)
                /\ new.id = old.id
                /\ new.title = goal.title
                /\ new.description = goal.description
                /\ new.milestones = Join(goal.milestones)
                /\ new.estimated_days = goal.estimated_days
                /\ new.elapsed_days = 0
                /\ new.progress = old.progress]_vars

\* a PUT has reset a goal that had been advanced half way: its progress is still 50,
\* not the 40 of the body, and a second goal is stored
C6_Witness ==
    /\ resp.op = "update_goal"
    /\ resp.status = 200
    /\ Len(goals) = 2
    /\ resp.goal.progress = Float(40)
    /\ RowOf(goals, resp.goal_id).title = "Learn Rust"
    /\ RowOf(goals, resp.goal_id).elapsed_days = 0
    /\ RowOf(goals, resp.goal_id).progress = Float(50)

\* the decoded rows of a table, as GET /goals/ lists them
Listed(table) == [i \in 1..Len(table) |-> GoalDict(table[i])]

\* the rows of a table whose id is not the given one, in order
Remaining(table, goal_id) == SelectSeq(table, LAMBDA row : row.id # goal_id)

C9_NeverDecreases ==
    [][\A goal_id \in IdsOf(goals) \cap IdsOf(goals') :
         RowOf(goals', goal_id).elapsed_days >= RowOf(goals, goal_id).elapsed_days]_vars

(* C9 amended: elapsed_days is 0 on creation, and no operation other than PUT        *)
(* /goals/{id}/ (Replace) ever takes a stored goal's elapsed_days to a smaller       *)
(* value; Replace sets the elapsed_days of the goal it names to 0.                   *)
C9_DecreasesOnlyByReplace ==
    [][/\ \A goal_id \in IdsOf(goals') \ IdsOf(goals) :
            RowOf(goals', goal_id).elapsed_days = 0
       /\ \A goal_id \in IdsOf(goals) \cap IdsOf(goals') :
            \/ RowOf(goals', goal_id).elapsed_days >= RowOf(goals, goal_id).elapsed_days
            \/ /\ resp'.op = "update_goal"
               /\ resp'.goal_id = goal_id
               /\ RowOf(goals', goal_id).elapsed_days = 0]_vars

\* a PUT has reset a goal that a PATCH-increment had taken past its estimate
C9_Witness ==
    /\ resp.op = "update_goal"
    /\ resp.status = 200
    /\ RowOf(goals, resp.goal_id).elapsed_days = 0
    /\ RowOf(goals, resp.goal_id).progress = Float(150)

\* no label of the list holds a comma
CommaFree(list) == \A k \in 1..Len(list) : \A j \in 1..Len(list[k]) : list[k][j] # ","

(* C8: a goal stored by POST or PUT with a list of milestones none of which holds a  *)
(* comma, the empty list and empty labels included, comes back with exactly that     *)
(* list, in order, in the operation's own answer and in the list of GET /goals/.     *)
C8_RoundTrip ==
    (/\ resp.op \in {"create_goal", "update_goal"}
     /\ resp.status # 404
     /\ CommaFree(resp.goal.milestones))
    => LET goal_id == IF resp.op = "create_goal" THEN goals[Len(goals)].id ELSE resp.goal_id
       IN  /\ resp.status = 200
           /\ Len(resp.goals) = 1
           /\ resp.goals[1].milestones = resp.goal.milestones
           /\ RowOf(Listed(goals), goal_id).milestones = resp.goal.milestones

\* C8 for the list of GET /goals/ alone, the operation's own answer left aside
C8_ListRoundTrip ==
    (/\ resp.op \in {"create_goal", "update_goal"}
     /\ resp.status # 404
     /\ CommaFree(resp.goal.milestones))
    => LET goal_id == IF resp.op = "create_goal" THEN goals[Len(goals)].id ELSE resp.goal_id
       IN  RowOf(Listed(goals), goal_id).milestones = resp.goal.milestones

\* C8 for every list but the list of one empty label
C8_RoundTripButOneEmptyLabel ==
    (/\ resp.op \in {"create_goal", "update_goal"}
     /\ resp.status # 404
     /\ CommaFree(resp.goal.milestones)
     /\ resp.goal.milestones # <<<<>>>>)
    => LET goal_id == IF resp.op = "create_goal" THEN goals[Len(goals)].id ELSE resp.goal_id
       IN  /\ resp.op = "update_goal"
              => /\ resp.status = 200
                 /\ resp.goals[1].milestones = resp.goal.milestones
           /\ RowOf(Listed(goals), goal_id).milestones = resp.goal.milestones

\* the PUT-increment calls on a goal that answered 200
Successes(goal_id) == Cardinality({k \in 1..Len(calls[goal_id]) : calls[goal_id][k] = 200})

(* C10: with the load and the commit of PUT-increment calls interleaved, a stored    *)
(* goal's elapsed_days is at most the number of calls on it that answered 200 (so    *)
(* updates may be lost, as in the witness) and, once advanced, never above its       *)
(* estimated_days, whatever the interleaving.                                        *)
C10_NoOvershoot ==
    \A goal_id \in Ids :
        LET row == RowOf(goals, goal_id)
        IN  /\ row.elapsed_days <= Successes(goal_id)
            /\ Successes(goal_id) > 0 => row.elapsed_days >= 1
            /\ row.elapsed_days > 0 => row.elapsed_days <= row.estimated_days
            /\ row.estimated_days <= 0 => row.elapsed_days = 0

\* a lost update: two calls on a goal of estimate 2 and more answered 200 and its
\* elapsed_days is 1
C10_Witness ==
    \E goal_id \in Ids :
        /\ RowOf(goals, goal_id).estimated_days >= 2
        /\ calls[goal_id] = <<200, 200>>
        /\ RowOf(goals, goal_id).elapsed_days = 1
        /\ \A w \in Workers : sessions[w].pc = "idle"

====
